---------------------------- MODULE Spec2Model ----------------------------
(***************************************************************************)
(* Model of the plain-forward relay of proxy-chain (src/src/forward.ts).    *)
(*                                                                         *)
(* One relay is one call of forward(request, response, handlerOpts).  The  *)
(* call builds the outbound request synchronously; afterwards the relay is *)
(* driven by the callbacks it registered on the outbound request: the      *)
(* 'response' callback, the 'socket' listener, the 'error' listener, and   *)
(* the settling of the awaited pipeline.  The runtime may invoke the       *)
(* callbacks in any order: forward never removes a listener and never      *)
(* destroys the outbound request itself.                                   *)
(***************************************************************************)
EXTENDS Integers, Sequences, FiniteSets, TLC

(***************************************************************************)
(* Bounds of the model.                                                    *)
(***************************************************************************)
\* how many 'error' events the outbound request may emit in one relay
MaxErrors == 2

\* chunks of a request body and of a response body
MaxChunks == 2

(***************************************************************************)
(* Text.  Credentials are sequences of code units so that the encoder can  *)
(* be computed; header names and values are strings.                       *)
(***************************************************************************)
B64Alphabet ==
    << "A","B","C","D","E","F","G","H","I","J","K","L","M",
       "N","O","P","Q","R","S","T","U","V","W","X","Y","Z",
       "a","b","c","d","e","f","g","h","i","j","k","l","m",
       "n","o","p","q","r","s","t","u","v","w","x","y","z",
       "0","1","2","3","4","5","6","7","8","9","+","/" >>

B64Char(i) == B64Alphabet[i + 1]

RECURSIVE Base64(_)
\* Buffer.from(auth).toString('base64'): three octets give four characters,
\* a trailing group of one or two octets is padded with '='.
Base64(b) ==
    IF Len(b) = 0 THEN ""
    ELSE IF Len(b) = 1 THEN
        B64Char(b[1] \div 4) \o B64Char((b[1] % 4) * 16) \o "=="
    ELSE IF Len(b) = 2 THEN
        B64Char(b[1] \div 4) \o B64Char((b[1] % 4) * 16 + b[2] \div 16)
            \o B64Char((b[2] % 16) * 4) \o "="
    ELSE
        B64Char(b[1] \div 4) \o B64Char((b[1] % 4) * 16 + b[2] \div 16)
            \o B64Char((b[2] % 16) * 4 + b[3] \div 64) \o B64Char(b[3] % 64)
            \o Base64(SubSeq(b, 4, Len(b)))

\* "user", "pass", ":" and a user name holding a unit no octet can carry
UserName == << 117, 115, 101, 114 >>
PassWord == << 112, 97, 115, 115 >>
Colon == << 58 >>
BadName == << 117, 256 >>

(***************************************************************************)
(* The inputs of one relay: request, response and handlerOpts.             *)
(***************************************************************************)
NoProxy == [kind |-> "none"]

\* handlerOpts.upstreamProxyUrlParsed: absent, or a URL with origin,
\* username and password
Proxies ==
    {NoProxy}
    \cup { [kind |-> "proxy", scheme |-> "http:", host |-> "upstream.test:443",
            username |-> u, password |-> p] :
             u \in {<< >>, UserName, BadName}, p \in {<< >>, PassWord} }
    \cup { [kind |-> "proxy", scheme |-> "https:", host |-> "secure.test",
            username |-> << >>, password |-> << >>] }

\* request.url of a plain (non-CONNECT) proxy request: an absolute http URL
Urls ==
    { [scheme |-> "http:", host |-> "example.test", path |-> "/page"],
      [scheme |-> "http:", host |-> "example.test", path |-> "/"] }

\* request.rawHeaders: alternating names and values
RawHeaderChoices ==
    { << "Host", "example.test", "Accept", "*/*" >>,
      << "Host", "example.test", "Proxy-Authorization", "Basic Y2xpZW50",
         "Connection", "keep-alive" >>,
      << "", "x", "Host", "example.test" >> }

\* handlerOpts.customHttpHeader: absent, or a hook that prepends entries
Hooks == {"none", "userAgent", "auth"}

\* clientResponse.statusCode values the outbound parser may deliver
StatusCodes == {0, 99, 100, 200, 407, 999, 1000}

\* clientResponse.rawHeaders: alternating names and values
ResponseHeaderChoices ==
    { << "Content-Type", "text/html", "Content-Length", "2" >>,
      << "Content-Type", "text/html", "Connection", "close",
         "", "y", "Proxy-Authenticate", "Basic" >> }

\* error.code of an outbound 'error' event ("none": no code on the error)
ErrorCodes ==
    {"ENOTFOUND", "ECONNREFUSED", "ECONNRESET", "EPIPE", "ETIMEDOUT",
     "EAI_AGAIN", "none"}

VARIABLES
    proxy,      \* handlerOpts.upstreamProxyUrlParsed
    url,        \* request.url
    rawHeaders, \* request.rawHeaders
    hook,       \* handlerOpts.customHttpHeader
    called,     \* forward has run its synchronous part
    promise,    \* the promise forward returned
    requests,   \* outbound requests created by fn(origin, options, cb)
    client,     \* the outbound request (http.ClientRequest) or NoClient
    piped,      \* request.pipe(client) was called
    counters,   \* calls of countTargetBytes
    sockets,    \* 'socket' events delivered on the outbound request
    responded,  \* the 'response' callback has run
    upstream,   \* clientResponse as the callback saw it
    res,        \* the client-facing http.ServerResponse
    heads,      \* response heads the engine put on the client connection
    pipeline,   \* the awaited pipeline(clientResponse, response)
    errors,     \* 'error' events delivered on the outbound request
    ignored,    \* 'error' events the handler returned from at once
    mapped,     \* the error the handler mapped to a status, if any
    clientClosed, \* the client-facing connection has closed
    outbound,   \* the outbound connection: "none", "open" or "closed"
    uploaded,   \* request body chunks written to the outbound request
    downloaded  \* response body chunks written to the client

vars ==
    << proxy, url, rawHeaders, hook, called, promise, requests, client, piped,
       counters, sockets, responded, upstream, res, heads, pipeline, errors,
       ignored, mapped, clientClosed, outbound, uploaded, downloaded >>

body == << uploaded, downloaded >>

config == << proxy, url, rawHeaders, hook >>

(***************************************************************************)
(* Collaborators of the engine whose code is outside forward.ts.           *)
(***************************************************************************)
\* header names compare case-insensitively
Lower(n) ==
    CASE n = "Host" -> "host"
      [] n = "Accept" -> "accept"
      [] n = "Proxy-Authorization" -> "proxy-authorization"
      [] n = "Connection" -> "connection"
      [] n = "User-Agent" -> "user-agent"
      [] n = "Content-Type" -> "content-type"
      [] n = "Content-Length" -> "content-length"
      [] n = "Proxy-Authenticate" -> "proxy-authenticate"
      [] OTHER -> n

\* the sanitizer's deny-list of hop-by-hop names
HopByHop ==
    {"connection", "keep-alive", "proxy-authenticate", "proxy-authorization",
     "te", "trailer", "transfer-encoding", "upgrade"}

RECURSIVE validHeadersOnly(_)
\* drops the entries with an invalid (empty) name and the hop-by-hop ones,
\* keeps the others in order
validHeadersOnly(h) ==
    IF Len(h) < 2 THEN << >>
    ELSE LET rest == validHeadersOnly(SubSeq(h, 3, Len(h)))
         IN  IF h[1] = "" \/ Lower(h[1]) \in HopByHop
             THEN rest
             ELSE << h[1], h[2] >> \o rest

\* the units of "username:password"
Auth(p) == p.username \o Colon \o p.password

\* getBasicAuthorizationHeader throws when the credentials cannot be encoded
BasicThrows(p) == \E i \in 1..Len(Auth(p)) : Auth(p)[i] \notin 0..255

getBasicAuthorizationHeader(p) == "Basic " \o Base64(Auth(p))

(***************************************************************************)
(* forward: the synchronous part, as pure functions of the inputs.         *)
(***************************************************************************)
HasProxy(p) == p.kind = "proxy"

\* const origin = proxy ? proxy.origin : request.url
Origin(p, u) ==
    IF HasProxy(p)
    THEN [scheme |-> p.scheme, host |-> p.host, path |-> ""]
    ELSE u

\* handlerOpts.customHttpHeader(headers), as in examples/customheader.js
customHttpHeader(k, h) ==
    CASE k = "userAgent" -> << "User-Agent", "baiduboxapp/13.7.0.12" >> \o h
      [] k = "auth" -> << "proxy-authorization", "Basic aG9vaw==" >> \o h
      [] OTHER -> h

\* let headers = [...request.rawHeaders]; the hook replaces them when set
Headers(k, h) == IF k # "none" THEN customHttpHeader(k, h) ELSE h

\* a variant that looks at the username alone
HasCredentials_UserOnly(p) == Len(p.username) > 0

\* if (proxy.username || proxy.password)
HasCredentials(p) == Len(p.username) > 0 \/ Len(p.password) > 0

\* a variant whose catch is never entered
CredentialFailure_Never(p) == FALSE

\* the catch around getBasicAuthorizationHeader is entered
CredentialFailure(p) == HasProxy(p) /\ HasCredentials(p) /\ BasicThrows(p)

\* a variant without the return after reject(error)
Returned_Never(p) == FALSE

\* reject(error); return: the executor ends before fn(origin, options)
Returned(p) == CredentialFailure(p)

\* options.headers: the sanitized headers, then the pushed proxy-authorization
\* (nothing is pushed when getBasicAuthorizationHeader throws)
OptionsHeaders(p, k, h) ==
    IF HasProxy(p) /\ HasCredentials(p) /\ ~BasicThrows(p)
    THEN validHeadersOnly(Headers(k, h))
            \o << "proxy-authorization", getBasicAuthorizationHeader(p) >>
    ELSE validHeadersOnly(Headers(k, h))

\* a request target: the absolute-URI form of a URL, or its path alone
Href(u) == [scheme |-> u.scheme, host |-> u.host, path |-> u.path]
PathOf(u) == [scheme |-> "", host |-> "", path |-> u.path]
Unset == [scheme |-> "", host |-> "", path |-> ""]

\* a variant that sets options.path for every request
OptionsPath_Always(p, u) == Href(u)

\* options.path = request.url, only when a proxy is configured
OptionsPath(p, u) == IF HasProxy(p) THEN Href(u) ELSE Unset

\* the path fn(origin, options) puts on the request line: options.path when
\* set, otherwise the path of the URL given as origin
RequestPath(p, u) ==
    IF OptionsPath(p, u) # Unset THEN OptionsPath(p, u) ELSE PathOf(Origin(p, u))

\* origin.startsWith('https:') ? https.request : http.request
Fn(p, u) == IF Origin(p, u).scheme = "https:" THEN "https.request" ELSE "http.request"

NoClient == [fn |-> "none"]

\* const client = fn(origin, options, callback)
NewClient(p, u, k, h) ==
    [fn |-> Fn(p, u),
     host |-> Origin(p, u).host,
     path |-> RequestPath(p, u),
     headers |-> OptionsHeaders(p, k, h)]

(***************************************************************************)
(* The promise returned by forward: the first resolve or reject settles    *)
(* it, later calls change nothing.                                         *)
(***************************************************************************)
Pending == [state |-> "pending", error |-> "none"]

Resolve(pr) ==
    IF pr.state = "pending" THEN [state |-> "resolved", error |-> "none"] ELSE pr

Reject(pr, e) ==
    IF pr.state = "pending" THEN [state |-> "rejected", error |-> e] ELSE pr

\* the error thrown by getBasicAuthorizationHeader
EncodingError == "EncodingError"

\* new Error('407 Proxy Authentication Required')
Error407 == "407 Proxy Authentication Required"

(***************************************************************************)
(* The client-facing response and the 'response' callback.                 *)
(***************************************************************************)
\* a fresh http.ServerResponse
FreshResponse ==
    [headersSent |-> FALSE, statusCode |-> 200, contentType |-> "",
     body |-> "", ended |-> FALSE]

\* a variant that checks the lower end only
Clamp_LowerOnly(sc) == IF sc < 100 THEN 502 ELSE sc

\* if (statusCode < 100 || statusCode > 999) statusCode = 502
Clamp(sc) == IF sc < 100 \/ sc > 999 THEN 502 ELSE sc

\* a variant without the 407 branch
Is407_Never(sc) == FALSE

\* if (clientResponse.statusCode === 407)
Is407(sc) == sc = 407

\* a variant that returns on a 407 without rejecting
On407_ReturnOnly(pr) == pr

\* reject(new Error('407 Proxy Authentication Required')); return
On407(pr) == Reject(pr, Error407)

\* a variant whose catch reports the failure
Catch_Rejects(pr) == Reject(pr, "stream failure")

\* catch { resolve() }: whatever the callback's try block throws
Catch(pr) == Resolve(pr)

\* response.writeHead(statusCode, statusMessage, headers) throws when a head
\* was already sent, when the status is outside [100,999] and when the
\* status message holds a character that cannot go on a status line
WriteHeadThrows(r, status, msgOk) ==
    r.headersSent \/ status < 100 \/ status > 999 \/ ~msgOk

(***************************************************************************)
(* The 'error' handler of the outbound request.                            *)
(***************************************************************************)
\* a variant without the headersSent check
ErrorIgnored_Never(r) == FALSE

\* a variant with the headersSent check inverted
ErrorIgnored_Inverted(r) == ~r.headersSent

\* if (response.headersSent) return
ErrorIgnored(r) == r.headersSent

\* a variant whose ENOTFOUND entry ignores the proxy
statuses_Always404(p, code) ==
    CASE code = "ENOTFOUND" -> 404
      [] code = "ETIMEDOUT" -> 504
      [] OTHER -> 502

\* mutant of statuses: a timeout is answered with 408
statuses_RequestTimeout(p, code) ==
    CASE code = "ENOTFOUND" -> IF HasProxy(p) THEN 502 ELSE 404
      [] code = "ETIMEDOUT" -> 408
      [] OTHER -> 502

\* statuses[error.code] ?? 502
statuses(p, code) ==
    CASE code = "ENOTFOUND" -> IF HasProxy(p) THEN 502 ELSE 404
      [] code = "ECONNREFUSED" -> 502
      [] code = "ECONNRESET" -> 502
      [] code = "EPIPE" -> 502
      [] code = "ETIMEDOUT" -> 504
      [] OTHER -> 502

\* http.STATUS_CODES[response.statusCode]
STATUS_CODES(status) ==
    CASE status = 404 -> "Not Found"
      [] status = 502 -> "Bad Gateway"
      [] status = 504 -> "Gateway Timeout"
      [] OTHER -> "undefined"

\* response.setHeader('content-type', 'text/plain; charset=utf-8')
ErrorHeaders == << "content-type", "text/plain; charset=utf-8" >>

\* mutant of OnMapped: the error handler rejects with the outbound error
OnMapped_Rejects(pr) == Reject(pr, "outbound error")

\* resolve(), the last statement of the error handler
OnMapped(pr) == Resolve(pr)

NoError == [code |-> "none", mapped |-> FALSE, promiseBefore |-> "pending"]

(***************************************************************************)
(* The state machine.                                                      *)
(***************************************************************************)
Init ==
    /\ proxy \in Proxies
    /\ url \in Urls
    /\ rawHeaders \in RawHeaderChoices
    /\ hook \in Hooks
    /\ called = FALSE
    /\ promise = Pending
    /\ requests = 0
    /\ client = NoClient
    /\ piped = FALSE
    /\ counters = 0
    /\ sockets = 0
    /\ responded = FALSE
    /\ upstream = [statusCode |-> 0, msgOk |-> TRUE, sentBefore |-> FALSE,
                   rawHeaders |-> << >>]
    /\ res = FreshResponse
    /\ heads = << >>
    /\ pipeline = "none"
    /\ errors = 0
    /\ ignored = 0
    /\ mapped = NoError
    /\ clientClosed = FALSE
    /\ outbound = "none"
    /\ uploaded = 0
    /\ downloaded = 0

\* mutant of Pipe: the request body is never piped to the outbound request
Pipe_Skipped == FALSE

\* request.pipe(client)
Pipe == TRUE

\* forward(request, response, handlerOpts): everything up to the return of
\* the promise's executor
Forward ==
    /\ ~called
    /\ called' = TRUE
    /\ promise' = IF CredentialFailure(proxy)
                  THEN Reject(promise, EncodingError)
                  ELSE promise
    /\ IF Returned(proxy)
       THEN UNCHANGED << requests, client, piped, outbound >>
       ELSE /\ client' = NewClient(proxy, url, hook, rawHeaders)
            /\ requests' = requests + 1
            /\ piped' = Pipe
            /\ outbound' = "open"
    /\ UNCHANGED body
    /\ UNCHANGED << config, counters, sockets, responded, upstream, res, heads,
                    pipeline, errors, ignored, mapped, clientClosed >>

\* mutant of CountOnSocket: the socket listener attaches no counters
CountOnSocket_Skipped(c) == c

\* countTargetBytes(request.socket, socket): one more attached counter pair
CountOnSocket(c) == c + 1

\* client.once('socket', socket => countTargetBytes(request.socket, socket))
Socket ==
    /\ client.fn # "none"
    /\ sockets = 0
    /\ sockets' = sockets + 1
    /\ counters' = CountOnSocket(counters)
    /\ UNCHANGED body
    /\ UNCHANGED << config, called, promise, requests, client, piped, responded,
                    upstream, res, heads, pipeline, errors, ignored, mapped,
                    clientClosed, outbound >>

\* mutant of ResponseHeaders: the upstream's raw headers are relayed as received
ResponseHeaders_Raw(rh) == rh

\* validHeadersOnly(clientResponse.rawHeaders), the third argument of writeHead
ResponseHeaders(rh) == validHeadersOnly(rh)

\* the callback given to fn: runs once, up to its await; a throwing
\* writeHead is caught by the callback's catch
Response(sc, msgOk, rh) ==
    /\ client.fn # "none"
    /\ ~responded
    /\ responded' = TRUE
    /\ upstream' = [statusCode |-> sc, msgOk |-> msgOk,
                    sentBefore |-> res.headersSent, rawHeaders |-> rh]
    /\ IF Is407(sc)
       THEN /\ promise' = On407(promise)
            /\ UNCHANGED << res, heads, pipeline >>
       ELSE IF WriteHeadThrows(res, Clamp(sc), msgOk)
       THEN /\ promise' = Catch(promise)
            /\ UNCHANGED << res, heads, pipeline >>
       ELSE /\ res' = [res EXCEPT !.headersSent = TRUE, !.statusCode = Clamp(sc)]
            /\ heads' = Append(heads, [status |-> Clamp(sc), by |-> "relay",
                                       headers |-> ResponseHeaders(rh)])
            /\ pipeline' = "running"
            /\ UNCHANGED promise
    /\ UNCHANGED body
    /\ UNCHANGED << config, called, requests, client, piped, counters, sockets,
                    errors, ignored, mapped, clientClosed, outbound >>

\* await pipeline(clientResponse, response) settles: resolve() after it
\* finished, the catch after it failed.  It cannot finish once the client
\* connection has closed; either way pipeline leaves both streams ended
\* or destroyed.
PipelineSettle(ok) ==
    /\ pipeline = "running"
    /\ ok => ~clientClosed
    /\ outbound' = "closed"
    /\ pipeline' = IF ok THEN "finished" ELSE "failed"
    /\ res' = [res EXCEPT !.ended = ok]
    /\ promise' = IF ok THEN Resolve(promise) ELSE Catch(promise)
    /\ UNCHANGED body
    /\ UNCHANGED << config, called, requests, client, piped, counters, sockets,
                    responded, upstream, heads, errors, ignored, mapped,
                    clientClosed >>

\* client.on('error', error => ...); the runtime emits 'error' on a request
\* whose socket it has destroyed
Error(code) ==
    /\ client.fn # "none"
    /\ errors < MaxErrors
    /\ errors' = errors + 1
    /\ outbound' = "closed"
    /\ IF ErrorIgnored(res)
       THEN /\ ignored' = ignored + 1
            /\ UNCHANGED << res, heads, promise, mapped >>
       ELSE /\ res' = [headersSent |-> TRUE,
                       statusCode |-> statuses(proxy, code),
                       contentType |-> "text/plain; charset=utf-8",
                       body |-> STATUS_CODES(statuses(proxy, code)),
                       ended |-> TRUE]
            /\ heads' = Append(heads, [status |-> statuses(proxy, code), by |-> "error",
                                       headers |-> ErrorHeaders])
            /\ promise' = OnMapped(promise)
            /\ mapped' = [code |-> code, mapped |-> TRUE,
                          promiseBefore |-> promise.state]
            /\ UNCHANGED ignored
    /\ UNCHANGED body
    /\ UNCHANGED << config, called, requests, client, piped, counters, sockets,
                    responded, upstream, pipeline, clientClosed >>

\* the client-facing connection closes.  forward registers no listener for
\* it, and request.pipe(client) neither ends nor destroys the outbound
\* request when its source closes
ClientClose ==
    /\ called
    /\ ~clientClosed
    /\ clientClosed' = TRUE
    /\ UNCHANGED body
    /\ UNCHANGED << config, called, promise, requests, client, piped, counters,
                    sockets, responded, upstream, res, heads, pipeline, errors,
                    ignored, mapped, outbound >>

\* request.pipe(client) moves one chunk of the client's request body to the
\* outbound request; the client decides when (and whether) a chunk comes
RequestData ==
    /\ piped
    /\ outbound = "open"
    /\ ~clientClosed
    /\ uploaded < MaxChunks
    /\ uploaded' = uploaded + 1
    /\ UNCHANGED << config, called, promise, requests, client, piped, counters,
                    sockets, responded, upstream, res, heads, pipeline, errors,
                    ignored, mapped, clientClosed, outbound, downloaded >>

\* pipeline(clientResponse, response) moves one chunk of the outbound
\* response body to the client
ResponseData ==
    /\ pipeline = "running"
    /\ ~clientClosed
    /\ downloaded < MaxChunks
    /\ downloaded' = downloaded + 1
    /\ UNCHANGED << config, called, promise, requests, client, piped, counters,
                    sockets, responded, upstream, res, heads, pipeline, errors,
                    ignored, mapped, clientClosed, outbound, uploaded >>

Next ==
    \/ Forward
    \/ Socket
    \/ \E sc \in StatusCodes, msgOk \in BOOLEAN, rh \in ResponseHeaderChoices :
          Response(sc, msgOk, rh)
    \/ \E ok \in BOOLEAN : PipelineSettle(ok)
    \/ \E code \in ErrorCodes : Error(code)
    \/ ClientClose

Spec == Init /\ [][Next]_vars

(***************************************************************************)
(* Fairness.  The transport answers an outbound request with a response or *)
(* with an error (a connection that never answers ends in the transport's  *)
(* own timeout error), and a pipeline that has started settles when either *)
(* of its streams ends, fails or closes.                                   *)
(***************************************************************************)
FirstOutboundEvent ==
    /\ ~responded
    /\ errors = 0
    /\ \/ \E sc \in StatusCodes, msgOk \in BOOLEAN, rh \in ResponseHeaderChoices :
             Response(sc, msgOk, rh)
       \/ \E code \in ErrorCodes : Error(code)

FairSpec ==
    /\ Spec
    /\ WF_vars(Forward)
    /\ WF_vars(FirstOutboundEvent)
    /\ WF_vars(\E ok \in BOOLEAN : PipelineSettle(ok))

(***************************************************************************)
(* The relay with its two body streams, for one shape of request.          *)
(***************************************************************************)
StreamInit ==
    /\ Init
    /\ hook = "none"
    /\ url.path = "/"
    /\ Len(rawHeaders) = 4 /\ rawHeaders[1] = "Host"

StreamNext ==
    \/ Next
    \/ RequestData
    \/ ResponseData

StreamSpec == StreamInit /\ [][StreamNext]_vars

(***************************************************************************)
(* Properties.                                                             *)
(***************************************************************************)
RelayedHeads == { i \in 1..Len(heads) : heads[i].by = "relay" }
ErrorHeads == { i \in 1..Len(heads) : heads[i].by = "error" }

\* C1: in one relay the engine starts at most one response to the client,
\* whatever the order of the outbound 'response' callback and 'error'
\* events: a head (relayed or error-mapped) is only ever written while no
\* head has been sent, so an error response is never followed by a second
\* status line and a relayed head is never followed by an error response.
C1_AtMostOneResponse ==
    /\ [](Len(heads) <= 1)
    /\ [][heads' # heads => (~res.headersSent /\ Len(heads') = Len(heads) + 1)]_vars

\* an error response was written, and a later outbound response (valid, not
\* a 407) wrote nothing
C1_Witness ==
    /\ mapped.mapped
    /\ responded /\ upstream.sentBefore
    /\ upstream.statusCode = 200 /\ upstream.msgOk
    /\ Len(heads) = 1 /\ heads[1].by = "error"

\* an outbound 'error' was delivered after the relayed head was written
LateError == ignored > 0 /\ RelayedHeads # {}

\* C2: when the outbound request emits an error after the relayed response
\* head was written to the client, the promise eventually resolves, is
\* never rejected, and the relayed head stays the only status line (no
\* error status or body is written).
C2_LateErrorResolves ==
    /\ [](LateError => <>(promise.state = "resolved"))
    /\ [](LateError => /\ promise.state # "rejected"
                       /\ Len(heads) = 1
                       /\ res.body = "")

\* a late error was ignored and the failing pipeline resolved the relay
C2_Witness ==
    /\ LateError
    /\ pipeline = "failed"
    /\ promise.state = "resolved"

\* what the 'error' handler leaves behind when it maps the error
ErrorResponseWritten(r) ==
    /\ r.headersSent
    /\ r.ended
    /\ r.statusCode \in {404, 502, 504}
    /\ r.contentType = "text/plain; charset=utf-8"
    /\ r.body = (CASE r.statusCode = 404 -> "Not Found"
                   [] r.statusCode = 502 -> "Bad Gateway"
                   [] OTHER -> "Gateway Timeout")

C4_Original ==
    (responded /\ upstream.statusCode = 407)
        => /\ RelayedHeads = {}
           /\ pipeline = "none"
           /\ promise = [state |-> "rejected", error |-> Error407]

\* C4 (amended): a 407 outbound response is never written to the client (no
\* head, no body relay), and the relay's outcome is the rejection with the
\* 407 error unless an earlier outbound error had already been mapped to a
\* response and resolved the relay.
C4_No407Relayed ==
    (responded /\ upstream.statusCode = 407)
        => /\ RelayedHeads = {}
           /\ pipeline = "none"
           /\ IF upstream.sentBefore
              THEN promise.state = "resolved" /\ ErrorHeads # {}
              ELSE promise = [state |-> "rejected", error |-> Error407]

\* a 407 arrived first, an error followed: the outcome is still the 407
C4_Witness ==
    /\ responded /\ upstream.statusCode = 407
    /\ errors > 0
    /\ promise = [state |-> "rejected", error |-> Error407]

ProxyAuthAt(h) ==
    { i \in 1..Len(h) : i % 2 = 1 /\ Lower(h[i]) = "proxy-authorization" }

\* the upstream URL carries a non-empty username or password
Credentialed ==
    /\ proxy.kind = "proxy"
    /\ (proxy.username # << >> \/ proxy.password # << >>)

\* C6: the outbound request carries a Proxy-Authorization header if and
\* only if an upstream proxy is configured with a non-empty username or
\* password; then there is exactly one, with the value "Basic " followed by
\* the base64 text of user:pass (dXNlcjpwYXNz for user:pass).
C6_ProxyAuthorization ==
    client.fn # "none"
        => LET at == ProxyAuthAt(client.headers)
           IN  /\ (at # {}) <=> Credentialed
               /\ Credentialed
                    => /\ Cardinality(at) = 1
                       /\ \A i \in at :
                            client.headers[i + 1]
                              = "Basic " \o Base64(proxy.username \o << 58 >>
                                                     \o proxy.password)
               /\ (Credentialed /\ proxy.username = UserName
                     /\ proxy.password = PassWord)
                    => \A i \in at : client.headers[i + 1] = "Basic dXNlcjpwYXNz"

\* through a proxy with user:pass, a request whose own headers already held
\* a Proxy-Authorization entry carries only the engine's
C6_Witness ==
    /\ client.fn # "none"
    /\ Credentialed /\ proxy.username = UserName /\ proxy.password = PassWord
    /\ ProxyAuthAt(rawHeaders) # {}
    /\ Cardinality(ProxyAuthAt(client.headers)) = 1
    /\ client.headers[Len(client.headers)] = "Basic dXNlcjpwYXNz"

\* C7: the outbound request path is the absolute-URI form of the original
\* request exactly when an upstream proxy is configured; without one it is
\* the original request path and never an absolute URI.
C7_OutboundPath ==
    client.fn # "none"
        => /\ (client.path.scheme # "") <=> (proxy.kind = "proxy")
           /\ proxy.kind = "proxy"
                => client.path = [scheme |-> url.scheme, host |-> url.host,
                                  path |-> url.path]
           /\ proxy.kind = "none"
                => client.path = [scheme |-> "", host |-> "", path |-> url.path]

\* a direct request for http://example.test/page goes out with path /page
C7_Witness ==
    /\ client.fn # "none"
    /\ proxy.kind = "none"
    /\ url.path = "/page"
    /\ client.path = [scheme |-> "", host |-> "", path |-> "/page"]
    /\ client.host = "example.test"

\* the upstream's credentials cannot be encoded
BadCredentials == proxy.kind = "proxy" /\ proxy.username = BadName

\* C8 as stated: exactly one outbound request is created for every inbound
\* request handled by forward, on every path including failures, and none
\* is re-issued.
C8_Original ==
    /\ [](called => requests = 1)
    /\ [][called => requests' = requests]_vars

\* C8 (amended): forward creates exactly one outbound request for every
\* inbound request, except that it creates none when encoding the upstream
\* credentials fails; no outbound request is ever re-issued.
C8_OneOutboundRequest ==
    /\ [](called => requests = (IF BadCredentials THEN 0 ELSE 1))
    /\ [](~called => requests = 0)
    /\ [][called => requests' = requests]_vars

\* a relay that failed before the response and one more error later: still
\* one outbound request
C8_Witness ==
    /\ called /\ requests = 1
    /\ mapped.mapped /\ errors = MaxErrors
    /\ responded

\* C9: every relay reaches a terminal outcome: the promise returned by
\* forward is eventually resolved or rejected.
C9_Terminates == <>(promise.state # "pending")

\* a stream failure while the body was relayed ended the relay
C9_Witness ==
    /\ pipeline = "failed"
    /\ errors = 0
    /\ promise.state = "resolved"

\* C10: when encoding the upstream credentials fails, the relay is rejected
\* with that error and nothing outbound exists: no outbound request, no
\* piping of the request body, no byte counters, no outbound event, then or
\* later.
C10_CredentialFailure ==
    (called /\ BadCredentials)
        => /\ promise = [state |-> "rejected", error |-> EncodingError]
           /\ requests = 0
           /\ client.fn = "none"
           /\ ~piped
           /\ counters = 0 /\ sockets = 0
           /\ ~responded /\ errors = 0
           /\ heads = << >>

\* the call with credentials that cannot be encoded has returned
C10_Witness ==
    /\ called /\ BadCredentials
    /\ proxy.password = PassWord
    /\ promise.state = "rejected"

\* C11: the pre-response error mapping is total and deterministic:
\* ENOTFOUND gives 404 without an upstream proxy and 502 with one, connection
\* refused, connection reset and broken pipe give 502, timed out gives 504,
\* and every other cause, a missing error code included, gives 502.
C11_ErrorMapping ==
    mapped.mapped
        => /\ res.statusCode =
                (CASE mapped.code = "ENOTFOUND" /\ proxy.kind = "none" -> 404
                   [] mapped.code = "ENOTFOUND" /\ proxy.kind = "proxy" -> 502
                   [] mapped.code \in {"ECONNREFUSED", "ECONNRESET", "EPIPE"} -> 502
                   [] mapped.code = "ETIMEDOUT" -> 504
                   [] OTHER -> 502)
           /\ ErrorHeads = {1}
           /\ heads[1].status = res.statusCode

\* a target that the upstream proxy's connection could not find: 502
C11_Witness ==
    /\ mapped.mapped /\ mapped.code = "ENOTFOUND"
    /\ proxy.kind = "proxy"
    /\ res.statusCode = 502 /\ res.body = "Bad Gateway"

\* C12: when the client-facing connection closes while the outbound
\* connection is open, the outbound connection is eventually torn down, in
\* every phase of the relay.
C12_Original ==
    [](clientClosed /\ outbound = "open" => <>(outbound # "open"))

C14_HeadAfterValidation ==
    /\ []((responded /\ upstream.statusCode = 407) => RelayedHeads = {})
    /\ [][\A i \in 1..Len(heads') :
              (i > Len(heads) /\ heads'[i].by = "relay")
                  => /\ ~responded /\ responded'
                     /\ upstream'.statusCode # 407
                     /\ heads'[i].status =
                            (IF upstream'.statusCode \in 100..999
                             THEN upstream'.statusCode ELSE 502)
                     /\ res'.headersSent /\ ~res.headersSent]_vars

\* an out-of-range upstream status was received, clamped and then relayed
C14_Witness ==
    /\ responded /\ upstream.statusCode = 1000
    /\ RelayedHeads = {1}
    /\ heads[1].status = 502

\* C15: byte counters are attached exactly when the outbound socket is
\* established: one attachment per established socket, never a second one,
\* none without a socket, whatever the response, the error mapping or the
\* promise have done, and the attachment is never undone.
C15_CountersOnSocket ==
    /\ [](counters = sockets /\ counters \in {0, 1})
    /\ [](requests = 0 => counters = 0)
    /\ [][/\ counters' >= counters
          /\ counters' # counters
                => /\ sockets = 0 /\ sockets' = 1
                   /\ promise' = promise /\ responded' = responded
                   /\ heads' = heads /\ errors' = errors]_vars

\* counters attached on a relay that failed before any response arrived
C15_Witness ==
    /\ counters = 1
    /\ mapped.mapped /\ mapped.code = "ECONNREFUSED"
    /\ ~responded

\* the names of a header sequence
Names(h) == { Lower(h[i]) : i \in { j \in 1..Len(h) : j % 2 = 1 } }

\* the client's raw headers after the hook, when one is configured
Hooked == IF hook = "none" THEN rawHeaders ELSE customHttpHeader(hook, rawHeaders)

\* C16 as stated: the outbound request headers are exactly the sanitized
\* (hooked) client headers, every head written to the client carries exactly
\* the sanitized outbound response headers, and so no entry reaches a socket
\* without having passed through the sanitizer.
C16_Original ==
    /\ client.fn # "none" => client.headers = validHeadersOnly(Hooked)
    /\ \A i \in 1..Len(heads) :
          heads[i].headers = validHeadersOnly(upstream.rawHeaders)

\* C16 amended: the outbound request headers are the sanitized (hooked)
\* client headers, followed by the engine's own Proxy-Authorization entry
\* when the upstream has credentials; a relayed head carries the sanitized
\* outbound response headers; the error response carries the engine's own
\* content-type.  The sanitized parts hold no empty and no hop-by-hop name.
C16_Sanitized ==
    /\ client.fn # "none"
          => /\ client.headers =
                    validHeadersOnly(Hooked)
                        \o (IF Credentialed
                            THEN << "proxy-authorization",
                                    getBasicAuthorizationHeader(proxy) >>
                            ELSE << >>)
             /\ Names(validHeadersOnly(Hooked)) \cap (HopByHop \cup {""}) = {}
             /\ (hook = "none" /\ ~Credentialed /\ ProxyAuthAt(rawHeaders) # {})
                    => client.headers = << "Host", "example.test" >>
    /\ \A i \in RelayedHeads :
          /\ heads[i].headers = validHeadersOnly(upstream.rawHeaders)
          /\ Names(heads[i].headers) \cap (HopByHop \cup {""}) = {}
          /\ Names(heads[i].headers) \subseteq Names(upstream.rawHeaders)
    /\ \A i \in ErrorHeads :
          heads[i].headers = << "content-type", "text/plain; charset=utf-8" >>

\* a hook that adds its own Proxy-Authorization, an upstream with
\* credentials, and a relayed response whose raw headers held hop-by-hop and
\* invalid entries
C16_Witness ==
    /\ client.fn # "none" /\ hook = "auth" /\ Credentialed
    /\ Cardinality(ProxyAuthAt(client.headers)) = 1
    /\ RelayedHeads = {1}
    /\ "connection" \in Names(upstream.rawHeaders)
    /\ heads[1].headers = << "Content-Type", "text/html" >>

\* C17: the request body is piped from the moment the outbound request
\* exists; a chunk of it can move whenever the outbound connection is open,
\* before any outbound response as well as while the response is relayed; a
\* chunk of the response can move whenever the relay of the response runs,
\* however much of the request body has moved; a step of one direction
\* changes nothing of the other.
C17_IndependentDirections ==
    /\ [](piped <=> client.fn # "none")
    /\ []((client.fn # "none" /\ ~responded /\ errors = 0
             /\ ~clientClosed /\ uploaded < MaxChunks)
            => ENABLED RequestData)
    /\ []((pipeline = "running" /\ outbound = "open"
             /\ ~clientClosed /\ uploaded < MaxChunks)
            => ENABLED RequestData)
    /\ []((pipeline = "running" /\ ~clientClosed /\ downloaded < MaxChunks)
            => ENABLED ResponseData)
    /\ [][uploaded' # uploaded
            => UNCHANGED << downloaded, responded, pipeline, heads, res,
                            promise >>]_vars
    /\ [][downloaded' # downloaded
            => UNCHANGED << uploaded, piped, client, outbound >>]_vars

\* the whole response body was relayed and the relay finished while the
\* request body had stalled after its first chunk
C17_Witness ==
    /\ pipeline = "finished"
    /\ downloaded = MaxChunks
    /\ uploaded = 1 /\ uploaded < MaxChunks

\* C18: every status the engine writes to the client is in [100,999] and is
\* not 407; a relayed one is the upstream's status when that is in [100,999]
\* (and it is not 407), else 502; one written by the error handler is 404,
\* 502 or 504.
C18_WrittenStatuses ==
    /\ \A i \in 1..Len(heads) :
          /\ heads[i].status \in 100..999
          /\ heads[i].status # 407
          /\ heads[i].by = "relay"
                => /\ upstream.statusCode # 407
                   /\ \/ /\ upstream.statusCode \in 100..999
                         /\ heads[i].status = upstream.statusCode
                      \/ /\ upstream.statusCode \notin 100..999
                         /\ heads[i].status = 502
          /\ heads[i].by = "error" => heads[i].status \in {404, 502, 504}
    /\ res.headersSent
          => res.statusCode = heads[Len(heads)].status

\* a 407 answer followed by a timeout of the outbound request: the status
\* the engine wrote is the mapped 504
C18_Witness ==
    /\ responded /\ upstream.statusCode = 407
    /\ mapped.mapped /\ mapped.code = "ETIMEDOUT"
    /\ heads = << [status |-> 504, by |-> "error", headers |-> ErrorHeaders] >>

\* C19: once the relay has been rejected the engine writes nothing to the
\* client response: no head, no status, no body, no end.  (Every rejection
\* happens before the engine's first write, so nothing has been written
\* while the promise is rejected.)
C19_Original ==
    promise.state = "rejected"
        => /\ heads = << >>
           /\ res = FreshResponse

\* C20: whenever the promise is resolved a response head has been written to
\* the client, the relayed one or the error handler's, also when the
\* response callback's catch did the resolving.
C20_Original ==
    promise.state = "resolved" => heads # << >> /\ res.headersSent

=============================================================================
